---------------------------- MODULE Spec2Model ----------------------------
(***************************************************************************)
(* Reconciliation and variance-computation engine of the weekly financial  *)
(* report generator (logic/utils/functions.py, logic/calculations/         *)
(* product_scale.py, logic/process/data_process.py).                       *)
(*                                                                         *)
(* Column names of the source are written in ASCII here:                   *)
(*   code = 产品代码   name = 产品名称   type = 产品类型   scale = 规模     *)
(*   share = 占比      Total = 总计      ref = 校对产品规模                 *)
(*   adjusted = 调整后规模   date = 日期                                    *)
(*   <col>_hist = <col>_历史           <col>_chg = <col>_变化               *)
(*   wk_scale, mo_scale, yr_scale = 上周规模, 上月规模, 去年同期规模        *)
(*   wk_chg, mo_chg, yr_chg = 环比变化, 月度变化, 同比变化                  *)
(*                                                                         *)
(* Numbers are exact rationals n/d (d > 0, lowest terms).  The missing     *)
(* values of pandas are NaN (float) and None (Python); a string column     *)
(* holds NA for a missing entry.  Python exceptions are values Raise(e).   *)
(***************************************************************************)
EXTENDS Integers, Sequences, FiniteSets, TLC

\* op: the operation called last ("start": none is running); args: what the
\* caller passed; ret: what the call returned; locals: values the call held
\* before returning (the unformatted table of the scale report builder)
VARIABLES op, args, ret, locals

vars == <<op, args, ret, locals>>

---------------------------------------------------------------------------
(* Scalar values                                                           *)

Abs(i) == IF i < 0 THEN -i ELSE i

RECURSIVE GCD(_, _)
GCD(a, b) == IF b = 0 THEN a ELSE GCD(b, a % b)

\* the rational n/d, d # 0, in lowest terms with a positive denominator
Num(n, d) ==
    LET g == GCD(Abs(n), Abs(d))
        s == IF d < 0 THEN -1 ELSE 1
    IN  [t |-> "num", n |-> (s * n) \div g, d |-> (s * d) \div g]

Q(i) == Num(i, 1)

NaN == [t |-> "nan"]
None == [t |-> "none"]
Inf(s) == [t |-> "inf", s |-> s]
Raise(e) == [t |-> "raise", exc |-> e]
NA == "NaN"

IsRaise(v) == v.t = "raise"
\* the same test on a value that may be a record set
Failed(r) == "t" \in DOMAIN r /\ r.t = "raise"
IsNum(v) == v.t = "num"
IsZero(v) == v.t = "num" /\ v.n = 0
Sign(v) == IF v.t = "inf" THEN v.s
           ELSE IF v.n > 0 THEN 1 ELSE IF v.n < 0 THEN -1 ELSE 0

\* pd.isna on a scalar: True for None and for NaN
pd_isna(v) == v.t \in {"nan", "none"}

\* float(x): TypeError on None, the value itself on a number
float(v) == IF v.t = "none" THEN Raise("TypeError") ELSE v

\* a - b on floats (numpy and Python agree): NaN propagates
f_sub(a, b) ==
    IF IsRaise(a) THEN a ELSE IF IsRaise(b) THEN b
    ELSE IF a.t = "none" \/ b.t = "none" THEN Raise("TypeError")
    ELSE IF a.t = "nan" \/ b.t = "nan" THEN NaN
    ELSE IF a.t = "inf" /\ b.t = "inf" THEN (IF a.s = b.s THEN NaN ELSE a)
    ELSE IF a.t = "inf" THEN a
    ELSE IF b.t = "inf" THEN Inf(-b.s)
    ELSE Num(a.n * b.d - b.n * a.d, a.d * b.d)

f_add(a, b) ==
    IF a.t = "nan" \/ b.t = "nan" THEN NaN
    ELSE IF a.t = "inf" /\ b.t = "inf" THEN (IF a.s = b.s THEN a ELSE NaN)
    ELSE IF a.t = "inf" THEN a
    ELSE IF b.t = "inf" THEN b
    ELSE Num(a.n * b.d + b.n * a.d, a.d * b.d)

f_abs(a) ==
    IF a.t = "num" THEN Num(Abs(a.n), a.d)
    ELSE IF a.t = "inf" THEN Inf(1)
    ELSE a

\* a / b where b is not a zero
f_div_nz(a, b) ==
    IF a.t = "nan" \/ b.t = "nan" THEN NaN
    ELSE IF a.t = "inf" /\ b.t = "inf" THEN NaN
    ELSE IF a.t = "inf" THEN Inf(a.s * Sign(b))
    ELSE IF b.t = "inf" THEN Q(0)
    ELSE Num(a.n * b.d, a.d * b.n)

\* a / b on Python floats: ZeroDivisionError on a zero divisor
py_truediv(a, b) ==
    IF IsRaise(a) THEN a ELSE IF IsRaise(b) THEN b
    ELSE IF a.t = "none" \/ b.t = "none" THEN Raise("TypeError")
    ELSE IF IsZero(b) THEN Raise("ZeroDivisionError")
    ELSE f_div_nz(a, b)

\* a / b on numpy float64: x/0 is +-inf, 0/0 and NaN/0 are NaN (a warning, no exception)
np_truediv(a, b) ==
    IF IsRaise(a) THEN a ELSE IF IsRaise(b) THEN b
    ELSE IF IsZero(b)
         THEN (IF a.t = "nan" \/ IsZero(a) THEN NaN ELSE Inf(Sign(a)))
    ELSE f_div_nz(a, b)

\* a > b on floats: False whenever a NaN is involved
f_gt(a, b) ==
    IF a.t = "nan" \/ b.t = "nan" THEN FALSE
    ELSE IF a.t = "inf" THEN a.s = 1 /\ ~(b.t = "inf" /\ b.s = 1)
    ELSE IF b.t = "inf" THEN b.s = -1
    ELSE a.n * b.d > b.n * a.d

---------------------------------------------------------------------------
(* SafeArithmetic: logic/utils/functions.py                                *)

\* the handler `except (ValueError, TypeError): return <fallback>`
CatchValueTypeError(r, fallback) ==
    IF IsRaise(r) /\ r.exc \in {"ValueError", "TypeError"} THEN fallback ELSE r

safe_divide_NoZeroCheck(numerator, denominator, default_value) ==
    IF pd_isna(denominator) THEN default_value
    ELSE CatchValueTypeError(
           py_truediv(IF ~pd_isna(numerator) THEN float(numerator) ELSE Q(0),
                      float(denominator)),
           default_value)

safe_divide(numerator, denominator, default_value) ==
    IF pd_isna(denominator) \/ IsZero(denominator) THEN default_value
    ELSE CatchValueTypeError(
           py_truediv(IF ~pd_isna(numerator) THEN float(numerator) ELSE Q(0),
                      float(denominator)),
           default_value)

calculate_percentage_change_NaNCurrent(current_value, previous_value) ==
    IF pd_isna(previous_value) \/ IsZero(previous_value) THEN None
    ELSE CatchValueTypeError(
           py_truediv(f_sub(IF ~pd_isna(current_value) THEN float(current_value)
                                                       ELSE NaN,
                            float(previous_value)),
                      float(previous_value)),
           None)

calculate_percentage_change(current_value, previous_value) ==
    IF pd_isna(previous_value) \/ IsZero(previous_value) THEN None
    ELSE CatchValueTypeError(
           py_truediv(f_sub(IF ~pd_isna(current_value) THEN float(current_value)
                                                       ELSE Q(0),
                            float(previous_value)),
                      float(previous_value)),
           None)

---------------------------------------------------------------------------
(* Record sets (DataFrames): id names the Python object, cols its columns, *)
(* rows its rows in order, each row a function from cols to values.        *)

Frame(id, cols, rows) == [id |-> id, cols |-> cols, rows |-> rows]

\* the Python value None passed where a record set is expected
NoFrame == [id |-> "None"]

Range(s) == {s[i] : i \in DOMAIN s}

RECURSIVE SeqSum(_)
\* Series.sum(): missing values are skipped, the empty sum is 0
SeqSum(vals) ==
    IF vals = <<>> THEN Q(0)
    ELSE LET h == Head(vals)
         IN  IF pd_isna(h) THEN SeqSum(Tail(vals))
             ELSE f_add(h, SeqSum(Tail(vals)))

Column(df, c) == [i \in DOMAIN df.rows |-> df.rows[i][c]]

\* the order of Python strings on the labels used as keys
Alphabet == <<"A", "B", "C", "Total", "c1", "c2", "c3", NA>>
StrRank(s) == CHOOSE i \in DOMAIN Alphabet : Alphabet[i] = s

RECURSIVE KeyLess(_, _)
\* lexicographic order on key tuples
KeyLess(a, b) ==
    IF a = <<>> \/ b = <<>> THEN a = <<>> /\ b # <<>>
    ELSE IF Head(a) = Head(b) THEN KeyLess(Tail(a), Tail(b))
    ELSE StrRank(Head(a)) < StrRank(Head(b))

RECURSIVE SortKeys(_)
SortKeys(S) ==
    IF S = {} THEN <<>>
    ELSE LET m == CHOOSE k \in S : \A o \in S : o = k \/ KeyLess(k, o)
         IN  <<m>> \o SortKeys(S \ {m})

KeyOf(row, key_cols) == [i \in DOMAIN key_cols |-> row[key_cols[i]]]

IndexOf(seq, x) == CHOOSE i \in DOMAIN seq : seq[i] = x

SelectIdx(n, P(_)) ==
    LET F[i \in 0..n] ==
            IF i = 0 THEN <<>>
            ELSE IF P(i) THEN Append(F[i - 1], i) ELSE F[i - 1]
    IN  F[n]

\* the variant that keeps the groups in order of first appearance (sort=False)
GroupBySum_Unsorted(df, group_by_cols, sum_cols) ==
    LET rows == df.rows
        keyed(i) == \A j \in DOMAIN group_by_cols : rows[i][group_by_cols[j]] # NA
        first == SelectIdx(Len(rows),
                    LAMBDA i : keyed(i) /\ \A j \in 1..(i - 1) :
                        KeyOf(rows[j], group_by_cols) # KeyOf(rows[i], group_by_cols))
        members(k) == SelectIdx(Len(rows),
                        LAMBDA i : keyed(i) /\ KeyOf(rows[i], group_by_cols) = k)
        total(k, c) == SeqSum([j \in DOMAIN members(k) |-> rows[members(k)[j]][c]])
        outcols == Range(group_by_cols) \cup Range(sum_cols)
    IN  Frame("new", outcols,
              [n \in DOMAIN first |->
                  [c \in outcols |->
                      IF c \in Range(group_by_cols)
                      THEN rows[first[n]][c]
                      ELSE total(KeyOf(rows[first[n]], group_by_cols), c)]])

\* df.groupby(group_by_cols)[sum_cols].sum().reset_index(): rows whose key
\* holds a missing value are dropped, groups come sorted by key
GroupBySum(df, group_by_cols, sum_cols) ==
    LET rows == df.rows
        keyed(i) == \A j \in DOMAIN group_by_cols : rows[i][group_by_cols[j]] # NA
        keys == {KeyOf(rows[i], group_by_cols) : i \in {j \in DOMAIN rows : keyed(j)}}
        sorted == SortKeys(keys)
        members(k) == SelectIdx(Len(rows),
                        LAMBDA i : keyed(i) /\ KeyOf(rows[i], group_by_cols) = k)
        total(k, c) == SeqSum([j \in DOMAIN members(k) |-> rows[members(k)[j]][c]])
        outcols == Range(group_by_cols) \cup Range(sum_cols)
    IN  Frame("new", outcols,
              [n \in DOMAIN sorted |->
                  [c \in outcols |->
                      IF c \in Range(group_by_cols)
                      THEN sorted[n][IndexOf(group_by_cols, c)]
                      ELSE total(sorted[n], c)]])

group_and_sum_Raises(df, group_by_cols, sum_cols) ==
    IF \E c \in Range(group_by_cols) \cup Range(sum_cols) : c \notin df.cols
    THEN Raise("ValueError")
    ELSE GroupBySum(df, group_by_cols, sum_cols)

\* the column check raises ValueError inside the try block; the handler
\* `except Exception` prints and returns df itself
group_and_sum(df, group_by_cols, sum_cols) ==
    IF \E c \in Range(group_by_cols) \cup Range(sum_cols) : c \notin df.cols
    THEN df
    ELSE GroupBySum(df, group_by_cols, sum_cols)

\* df.rename(columns=mapping): columns not in the mapping keep their name
Rename(df, from, to) ==
    LET back(c) == IF c = to THEN from ELSE c
        cols == {IF c = from THEN to ELSE c : c \in df.cols}
    IN  Frame("new", cols,
              [i \in DOMAIN df.rows |-> [c \in cols |-> df.rows[i][back(c)]]])

\* df[cols]: the caller has checked that the columns exist
Select(df, cols) ==
    Frame("new", cols, [i \in DOMAIN df.rows |-> [c \in cols |-> df.rows[i][c]]])

RECURSIVE RenameAll(_, _, _)
RenameAll(df, cs, suffix) ==
    IF cs = <<>> THEN df
    ELSE RenameAll(Rename(df, Head(cs), Head(cs) \o suffix), Tail(cs), suffix)

\* pd.merge(left, right, on=on, how='left'): every left row in order, once per
\* matching right row (in the order of right), or once with missing values
\* when nothing matches; missing keys match missing keys
LeftMerge(left, right, on) ==
    LET extra == right.cols \ Range(on)
        match(i) == SelectIdx(Len(right.rows),
                       LAMBDA j : KeyOf(right.rows[j], on) = KeyOf(left.rows[i], on))
        joined(i) ==
            IF match(i) = <<>>
            THEN << left.rows[i] @@ [c \in extra |-> NaN] >>
            ELSE [k \in DOMAIN match(i) |->
                     left.rows[i] @@ [c \in extra |-> right.rows[match(i)[k]][c]]]
        F[i \in 0..Len(left.rows)] == IF i = 0 THEN <<>> ELSE F[i - 1] \o joined(i)
    IN  Frame("new", left.cols \cup extra, F[Len(left.rows)])

\* df[c] = df.apply(lambda x: f(x), axis=1)
WithColumn(df, c, f(_)) ==
    Frame(df.id, df.cols \cup {c},
          [i \in DOMAIN df.rows |-> (c :> f(df.rows[i])) @@ df.rows[i]])

RECURSIVE AddChanges(_, _)
AddChanges(df, cs) ==
    IF cs = <<>> THEN df
    ELSE AddChanges(
           WithColumn(df, Head(cs) \o "_chg",
               LAMBDA x : calculate_percentage_change(x[Head(cs)], x[Head(cs) \o "_hist"])),
           Tail(cs))

\* empty_apply_raises: whether assigning the result of DataFrame.apply(axis=1)
\* on a frame without rows to a single column raises (it does where apply
\* hands back a copy of the frame and the assignment rejects a frame of
\* several columns); the source pins no pandas version
merge_with_history(current_df, historical_df, on_columns, value_columns, empty_apply_raises) ==
    IF historical_df = NoFrame THEN current_df
    ELSE IF \E c \in Range(on_columns) \cup Range(value_columns) :
                c \notin historical_df.cols
         THEN current_df   \* KeyError selecting the historical columns
    ELSE IF \E c \in Range(on_columns) : c \notin current_df.cols
         THEN current_df   \* KeyError in pd.merge
    ELSE LET hist == Select(RenameAll(historical_df, value_columns, "_hist"),
                            Range(on_columns)
                              \cup {c \o "_hist" : c \in Range(value_columns)})
             merged_df == LeftMerge(current_df, hist, on_columns)
         IN  IF merged_df.rows = <<>>
             THEN (IF empty_apply_raises THEN current_df
                   ELSE Frame("new",
                              merged_df.cols
                                \cup {c \o "_chg" : c \in Range(value_columns)},
                              <<>>))
             ELSE IF \E c \in Range(value_columns) : c \notin current_df.cols
                  THEN current_df   \* KeyError in the lambda
             ELSE AddChanges(merged_df, value_columns)

---------------------------------------------------------------------------
(* Presentation: format_currency, format_percentage, style_dataframe.      *)
(* A formatted cell is the text it shows: Text(kind, h) stands for the     *)
(* decimal rendering of h/100 (kind "currency": thousands separators;      *)
(* "percent": two decimals and a % sign, "signed" when a + is prefixed).   *)

Text(kind, h) == [t |-> "text", kind |-> kind, h |-> h]
Literal(s) == [t |-> "text", kind |-> "literal", s |-> s]

\* round(x * 10^2) of Python: to the nearest, ties to the even neighbour
RoundHundredths(v) ==
    LET n == v.n * 100
        fl == IF n >= 0 THEN n \div v.d ELSE -((-n + v.d - 1) \div v.d)
        twice == 2 * (n - fl * v.d)
    IN  IF twice < v.d THEN fl
        ELSE IF twice > v.d THEN fl + 1
        ELSE IF fl % 2 = 0 THEN fl ELSE fl + 1

format_currency(value) ==
    IF pd_isna(value) THEN Literal("0.00")
    ELSE IF value.t = "inf" THEN Literal(IF value.s = 1 THEN "inf" ELSE "-inf")
    ELSE Text("currency", RoundHundredths(value))

format_percentage(value) ==
    IF pd_isna(value) THEN Literal("0.00%")
    ELSE IF value.t = "inf" THEN Literal(IF value.s = 1 THEN "+inf%" ELSE "-inf%")
    ELSE LET h == RoundHundredths(Num(value.n * 100, value.d))
         IN  Text(IF h > 0 THEN "signed percent" ELSE "percent", h)

style_dataframe(df, currency_cols, percentage_cols) ==
    Frame("new", df.cols,
          [i \in DOMAIN df.rows |->
              [c \in df.cols |->
                  IF c \in currency_cols THEN format_currency(df.rows[i][c])
                  ELSE IF c \in percentage_cols THEN format_percentage(df.rows[i][c])
                  ELSE df.rows[i][c]]])

---------------------------------------------------------------------------
(* ScaleReportBuilder: logic/calculations/product_scale.py                 *)

StringCols == {"code", "name", "type"}

\* df = data.copy(); each missing required column is added, filled with NaN
WithRequired(data, required_columns) ==
    LET cols == data.cols \cup required_columns
    IN  Frame("new", cols,
              [i \in DOMAIN data.rows |->
                  [c \in cols |->
                      IF c \in data.cols THEN data.rows[i][c]
                      ELSE IF c \in StringCols THEN NA ELSE NaN]])

\* df['scale'].sum()
total_scale_of_SkipFirst(df) ==
    SeqSum(IF df.rows = <<>> THEN <<>> ELSE Tail(Column(df, "scale")))

total_scale_of(df) == SeqSum(Column(df, "scale"))

\* product_type_scale['share'] = product_type_scale['scale'] / total_scale
\* (a Series divided by a numpy scalar: no exception on a zero total)
with_share_OfFirst(product_type_scale, total_scale) ==
    WithColumn(product_type_scale, "share",
               LAMBDA x : np_truediv(x.scale, product_type_scale.rows[1].scale))

with_share(product_type_scale, total_scale) ==
    WithColumn(product_type_scale, "share",
               LAMBDA x : np_truediv(x.scale, total_scale))

\* the variant that divides the difference by the current scale
period_join_OverCurrent(product_type_scale, period_data, hist_col, chg_col, empty_apply_raises) ==
    IF period_data = NoFrame THEN product_type_scale
    ELSE LET period_type_scale ==
                 Rename(group_and_sum(period_data, <<"type">>, <<"scale">>),
                        "scale", hist_col)
         IN  IF "type" \notin period_type_scale.cols
             THEN Raise("KeyError")
             ELSE LET merged == LeftMerge(product_type_scale, period_type_scale,
                                          <<"type">>)
                  IN  IF merged.rows = <<>>
                      THEN (IF empty_apply_raises THEN Raise("ValueError")
                            ELSE Frame("new", merged.cols \cup {chg_col}, <<>>))
                      ELSE IF hist_col \notin merged.cols
                      THEN Raise("KeyError")
                      ELSE WithColumn(merged, chg_col,
                             LAMBDA x : safe_divide(f_sub(x.scale, x[hist_col]),
                                                    x.scale, Q(0)))

\* one `if historical_data.get(period) is not None:` block
period_join(product_type_scale, period_data, hist_col, chg_col, empty_apply_raises) ==
    IF period_data = NoFrame THEN product_type_scale
    ELSE LET period_type_scale ==
                 Rename(group_and_sum(period_data, <<"type">>, <<"scale">>),
                        "scale", hist_col)
         IN  IF "type" \notin period_type_scale.cols
             THEN Raise("KeyError")   \* pd.merge: no such key on the right
             ELSE LET merged == LeftMerge(product_type_scale, period_type_scale,
                                          <<"type">>)
                  IN  IF merged.rows = <<>>
                      THEN (IF empty_apply_raises THEN Raise("ValueError")
                            ELSE Frame("new", merged.cols \cup {chg_col}, <<>>))
                      ELSE IF hist_col \notin merged.cols
                      THEN Raise("KeyError")   \* x[hist_col] in the lambda
                      ELSE WithColumn(merged, chg_col,
                             LAMBDA x : safe_divide(f_sub(x.scale, x[hist_col]),
                                                    x[hist_col], Q(0)))

\* the variant that totals the period's category sums, which leave out the
\* records without a category
total_entries_OfCategories(period_data, total_scale, hist_col, chg_col) ==
    IF period_data = NoFrame THEN <<>>
    ELSE IF "scale" \notin period_data.cols THEN Raise("KeyError")
    ELSE LET h == total_scale_of(group_and_sum(period_data, <<"type">>, <<"scale">>))
         IN  (hist_col :> h)
               @@ (chg_col :> safe_divide(f_sub(total_scale, h), h, Q(0)))

\* the entries one period adds to total_row
total_entries(period_data, total_scale, hist_col, chg_col) ==
    IF period_data = NoFrame THEN <<>>
    ELSE IF "scale" \notin period_data.cols THEN Raise("KeyError")
    ELSE LET h == total_scale_of(period_data)
         IN  (hist_col :> h)
               @@ (chg_col :> safe_divide(f_sub(total_scale, h), h, Q(0)))

Periods == <<"last_week", "last_month", "last_year">>
HistCol == [last_week |-> "wk_scale", last_month |-> "mo_scale", last_year |-> "yr_scale"]
ChgCol == [last_week |-> "wk_chg", last_month |-> "mo_chg", last_year |-> "yr_chg"]

RECURSIVE joined_periods(_, _, _, _)
joined_periods(product_type_scale, historical_data, k, empty_apply_raises) ==
    IF k = 0 THEN product_type_scale
    ELSE LET before == joined_periods(product_type_scale, historical_data, k - 1,
                                      empty_apply_raises)
         IN  IF Failed(before) THEN before
             ELSE period_join(before, historical_data[Periods[k]],
                              HistCol[Periods[k]], ChgCol[Periods[k]],
                              empty_apply_raises)

RECURSIVE total_row_of(_, _, _)
total_row_of(historical_data, total_scale, k) ==
    IF k = 0 THEN [type |-> "Total", scale |-> total_scale, share |-> Q(1)]
    ELSE LET before == total_row_of(historical_data, total_scale, k - 1)
             more == total_entries(historical_data[Periods[k]], total_scale,
                                   HistCol[Periods[k]], ChgCol[Periods[k]])
         IN  IF Failed(before) THEN before
             ELSE IF Failed(more) THEN more
             ELSE more @@ before

\* pd.concat([df, pd.DataFrame([row])], ignore_index=True): the union of the
\* columns, a cell without a value is NaN
concat_row(df, row) ==
    LET cols == df.cols \cup DOMAIN row
        fill(r) == [c \in cols |-> IF c \in DOMAIN r THEN r[c] ELSE NaN]
    IN  Frame("new", cols, [i \in DOMAIN df.rows |-> fill(df.rows[i])] \o <<fill(row)>>)

\* lines 32-129: the numeric table, or the exception that ends the try block
product_type_scale_of(current_data, historical_data, empty_apply_raises) ==
    LET df == WithRequired(current_data, {"code", "name", "type", "scale"})
        total_scale == total_scale_of(df)
        product_type_scale ==
            joined_periods(with_share(group_and_sum(df, <<"type">>, <<"scale">>),
                                      total_scale),
                           historical_data, 3, empty_apply_raises)
        total_row == total_row_of(historical_data, total_scale, 3)
    IN  IF Failed(product_type_scale) THEN product_type_scale
        ELSE IF Failed(total_row) THEN total_row
        ELSE concat_row(product_type_scale, total_row)

EmptyFrame == Frame("new", {}, <<>>)

\* lines 131-142: the table is formatted and returned;
\* `except Exception: return pd.DataFrame()`
styled_or_empty(product_type_scale) ==
    IF Failed(product_type_scale) THEN EmptyFrame
    ELSE style_dataframe(product_type_scale,
                         {"scale", "wk_scale", "mo_scale", "yr_scale"},
                         {"share", "wk_chg", "mo_chg", "yr_chg"})

calculate_product_scale(current_data, historical_data, empty_apply_raises) ==
    styled_or_empty(product_type_scale_of(current_data, historical_data,
                                          empty_apply_raises))

---------------------------------------------------------------------------
(* InstrumentDetailBuilder: calculate_product_scale_details.  Further      *)
(* columns: nav = 净值, share_total = 占总规模比例, type_total = 类型总规模, *)
(* share_type = 占类型规模比例, wk_nav = 上周净值, wk_scale_chg = 周规模变化, *)
(* wk_nav_chg = 周净值变化.                                                 *)

\* `historical_data and 'last_week' in historical_data
\*      and historical_data['last_week'] is not None`
has_last_week(historical_data) ==
    /\ historical_data # NoFrame
    /\ "last_week" \in DOMAIN historical_data
    /\ historical_data.last_week # NoFrame

\* lines 168-177: the two share columns, by plain division of the columns
detail_shares_OfFirst(df) ==
    LET total_scale == total_scale_of(df)
        with_total == WithColumn(df, "share_total",
                          LAMBDA x : np_truediv(x.scale, df.rows[1].scale))
        type_scale == Rename(GroupBySum(with_total, <<"type">>, <<"scale">>),
                             "scale", "type_total")
        merged == LeftMerge(with_total, type_scale, <<"type">>)
    IN  WithColumn(merged, "share_type", LAMBDA x : np_truediv(x.scale, x.type_total))

detail_shares(df) ==
    LET total_scale == total_scale_of(df)
        with_total == WithColumn(df, "share_total",
                          LAMBDA x : np_truediv(x.scale, total_scale))
        type_scale == Rename(GroupBySum(with_total, <<"type">>, <<"scale">>),
                             "scale", "type_total")
        merged == LeftMerge(with_total, type_scale, <<"type">>)
    IN  WithColumn(merged, "share_type", LAMBDA x : np_truediv(x.scale, x.type_total))

\* lines 180-200: last week's scale and net value joined by instrument code
detail_week_join(df, historical_data, empty_apply_raises) ==
    IF ~has_last_week(historical_data) THEN df
    ELSE IF ~({"code", "scale", "nav"} \subseteq historical_data.last_week.cols)
    THEN Raise("KeyError")   \* last_week_data[['code', 'scale', 'nav']]
    ELSE LET week == Rename(Rename(Select(historical_data.last_week,
                                          {"code", "scale", "nav"}),
                                   "scale", "wk_scale"),
                            "nav", "wk_nav")
             merged == LeftMerge(df, week, <<"code">>)
         IN  IF merged.rows = <<>>
             THEN (IF empty_apply_raises THEN Raise("ValueError")
                   ELSE Frame("new", merged.cols \cup {"wk_scale_chg", "wk_nav_chg"},
                              <<>>))
             ELSE WithColumn(
                    WithColumn(merged, "wk_scale_chg",
                        LAMBDA x : safe_divide(f_sub(x.scale, x.wk_scale),
                                               x.wk_scale, Q(0))),
                    "wk_nav_chg",
                    LAMBDA x : safe_divide(f_sub(x.nav, x.wk_nav), x.wk_nav, Q(0)))

\* whether row a sorts strictly before row b: by category ascending, then by
\* scale descending; a missing value sorts after every value
sorts_before(a, b) ==
    IF a.type # b.type
    THEN (b.type = NA \/ (a.type # NA /\ StrRank(a.type) < StrRank(b.type)))
    ELSE IF pd_isna(a.scale) THEN FALSE
    ELSE IF pd_isna(b.scale) THEN TRUE
    ELSE f_gt(a.scale, b.scale)

\* the variant that sorts ascending by both keys and reverses the scale
\* order afterwards, which turns the ties around
sort_values_TiesReversed(df) ==
    LET n == Len(df.rows)
        rank(i) == Cardinality({j \in 1..n :
                       \/ sorts_before(df.rows[j], df.rows[i])
                       \/ (~sorts_before(df.rows[i], df.rows[j]) /\ j > i)}) + 1
    IN  Frame("new", df.cols,
              [k \in 1..n |-> df.rows[CHOOSE i \in 1..n : rank(i) = k]])

\* df.sort_values(by=['type', 'scale'], ascending=[True, False]): a sort on
\* several keys is an indirect stable sort, so rows that agree on both keys
\* keep their order
sort_values(df) ==
    LET n == Len(df.rows)
        rank(i) == Cardinality({j \in 1..n :
                       \/ sorts_before(df.rows[j], df.rows[i])
                       \/ (~sorts_before(df.rows[i], df.rows[j]) /\ j < i)}) + 1
    IN  Frame("new", df.cols,
              [k \in 1..n |-> df.rows[CHOOSE i \in 1..n : rank(i) = k]])

output_columns(historical_data) ==
    {"code", "name", "type", "scale", "share_total", "share_type", "nav"}
        \cup (IF has_last_week(historical_data)
              THEN {"wk_scale", "wk_scale_chg", "wk_nav", "wk_nav_chg"} ELSE {})

\* lines 158-210: the numeric table, or the exception that ends the try block
detail_table_of(current_data, historical_data, empty_apply_raises) ==
    LET df == WithRequired(current_data, {"code", "name", "type", "scale", "nav"})
        joined == detail_week_join(detail_shares(df), historical_data,
                                   empty_apply_raises)
    IN  IF Failed(joined) THEN joined
        ELSE sort_values(Select(joined, output_columns(historical_data)))

\* lines 212-227: the table is formatted and returned;
\* `except Exception: return pd.DataFrame()`
styled_details_or_empty(df) ==
    IF Failed(df) THEN EmptyFrame
    ELSE style_dataframe(df, {"scale", "wk_scale"},
                         {"share_total", "share_type", "wk_scale_chg", "wk_nav_chg"})

calculate_product_scale_details(current_data, historical_data, empty_apply_raises) ==
    styled_details_or_empty(detail_table_of(current_data, historical_data,
                                            empty_apply_raises))

---------------------------------------------------------------------------
(* ChannelReconciler: process_channel_data, logic/process/data_process.py  *)
(* Further columns: date = 日期, channel = 渠道名称,                        *)
(* std_channel = 标准渠道名称.  Dates are REPORT_DATE, another day, or NA.  *)

REPORT_DATE == "report date"

\* the literal 0.1 of the comparison
Tolerance == Num(1, 10)

\* channel_name_map.get(x, x) if pd.notna(x) else 'other' (其他)
channel_name_map(x) ==
    IF x = NA THEN "other"
    ELSE IF x \in {"external 1", "channel A"} THEN "external A"
    ELSE IF x \in {"external 2", "channel B"} THEN "external B"
    ELSE IF x \in {"proprietary channel", "own channel"} THEN "proprietary"
    ELSE x

\* df[df['date'] == report_date]
FilterRows(df, keep(_)) ==
    LET idx == SelectIdx(Len(df.rows), LAMBDA i : keep(df.rows[i]))
    IN  Frame("new", df.cols, [k \in DOMAIN idx |-> df.rows[idx[k]]])

\* the variant that fills the scale of an unknown code with 0
product_scale_map_ZeroDefault(operation_overview_df, code) ==
    LET at == {i \in DOMAIN operation_overview_df.rows :
                   operation_overview_df.rows[i].code = code}
    IN  IF at = {} THEN Q(0)
        ELSE operation_overview_df.rows[CHOOSE i \in at : \A j \in at : j <= i].scale

\* dict(zip(codes, scales)): the last row of a code wins;
\* Series.map(dict): NaN for a code the dict does not hold
product_scale_map(operation_overview_df, code) ==
    LET at == {i \in DOMAIN operation_overview_df.rows :
                   operation_overview_df.rows[i].code = code}
    IN  IF at = {} THEN NaN
        ELSE operation_overview_df.rows[CHOOSE i \in at : \A j \in at : j <= i].scale

\* the variant that measures the difference against the size of the reference
adjusted_scale_AbsReference(x, numeric_rows) ==
    IF ~pd_isna(x.ref)
    THEN LET q == IF numeric_rows
                  THEN np_truediv(f_abs(f_sub(x.scale, x.ref)), f_abs(x.ref))
                  ELSE py_truediv(f_abs(f_sub(x.scale, x.ref)), f_abs(x.ref))
         IN  IF IsRaise(q) THEN q
             ELSE IF f_gt(q, Tolerance) THEN x.ref ELSE x.scale
    ELSE x.scale

\* the lambda of line 191, on a row of numpy floats (numeric_rows: every
\* column of the frame is numeric) or of Python objects (any other frame)
adjusted_scale(x, numeric_rows) ==
    IF ~pd_isna(x.ref)
    THEN LET q == IF numeric_rows
                  THEN np_truediv(f_abs(f_sub(x.scale, x.ref)), x.ref)
                  ELSE py_truediv(f_abs(f_sub(x.scale, x.ref)), x.ref)
         IN  IF IsRaise(q) THEN q
             ELSE IF f_gt(q, Tolerance) THEN x.ref ELSE x.scale
    ELSE x.scale

\* lines 146-196: the body of the try block, or the exception that ends it
process_channel_data_body(channel_df, operation_overview_df, numeric_rows, empty_apply_raises) ==
    LET df0 == Frame("new", channel_df.cols, channel_df.rows)
        df1 == IF "date" \in df0.cols
               THEN FilterRows(df0, LAMBDA r : r.date = REPORT_DATE)
               ELSE df0
        df2 == IF "channel" \in df1.cols
               THEN WithColumn(df1, "std_channel", LAMBDA r : channel_name_map(r.channel))
               ELSE df1
    IN  IF /\ operation_overview_df # NoFrame
           /\ "code" \in df2.cols
           /\ "code" \in operation_overview_df.cols
           /\ "scale" \in df2.cols
        THEN IF "scale" \notin operation_overview_df.cols
             THEN Raise("KeyError")
             ELSE LET df3 == WithColumn(df2, "ref",
                               LAMBDA r : product_scale_map(operation_overview_df, r.code))
                  IN  IF df3.rows = <<>>
                      THEN (IF empty_apply_raises THEN Raise("ValueError")
                            ELSE Frame("new", df3.cols \cup {"adjusted"}, <<>>))
                      ELSE IF \E i \in DOMAIN df3.rows :
                                   IsRaise(adjusted_scale(df3.rows[i], numeric_rows))
                      THEN Raise("ZeroDivisionError")
                      ELSE WithColumn(df3, "adjusted",
                                      LAMBDA r : adjusted_scale(r, numeric_rows))
        ELSE df2

\* `except Exception: return channel_df`
df_or_input(body, channel_df) == IF Failed(body) THEN channel_df ELSE body

process_channel_data(channel_df, operation_overview_df, numeric_rows, empty_apply_raises) ==
    df_or_input(process_channel_data_body(channel_df, operation_overview_df,
                                          numeric_rows, empty_apply_raises),
                channel_df)

---------------------------------------------------------------------------
(* Inputs                                                                  *)

MaxInt == 3
MaxRows == 3
MaxMergeRows == 2

Scalars == {NaN, None} \cup {Q(i) : i \in -MaxInt..MaxInt}
               \cup {Num(1, 2), Num(-3, 2)}
Defaults == {Q(0), Q(7), None}

SeqsUpTo(S, n) == UNION {[1..k -> S] : k \in 0..n}

Types == {"c1", "c2", NA}
Scales == {NaN, Q(1), Q(2)}

\* record sets with a category and a scale column, or lacking one of them
TypeScaleFrames(id, n) ==
    {Frame(id, {"type", "scale"}, rows) :
        rows \in SeqsUpTo([type : Types, scale : Scales], n)}
    \cup {Frame(id, {"type"}, rows) : rows \in SeqsUpTo([type : Types], n)}
    \cup {Frame(id, {"scale"}, rows) : rows \in SeqsUpTo([scale : Scales], n)}

Codes == {"A", "B"}
MergeScales == {NaN, Q(0), Q(2)}
HistScales == {Q(0), Q(2)}

\* record sets keyed by instrument code, with or without the scale column
CodeScaleFrames(id, scales, n) ==
    {Frame(id, {"code", "scale"}, rows) :
        rows \in SeqsUpTo([code : Codes, scale : scales], n)}
    \cup {Frame(id, {"code"}, rows) : rows \in SeqsUpTo([code : Codes], 1)}

MaxCurRows == 2
MaxHistRows == 1

CurRows == [type : {"c1", "c2"}, scale : {Q(0), Q(1), Q(-1)}]
               \cup {[type |-> NA, scale |-> Q(1)]}

\* current operational snapshots: category and scale, or one of them absent
CurrentFrames ==
    {Frame("current_data", {"type", "scale"}, rows) :
        rows \in SeqsUpTo(CurRows, MaxCurRows)}
    \cup {Frame("current_data", {"type"}, rows) : rows \in SeqsUpTo([type : Types], 1)}
    \cup {Frame("current_data", {"scale"}, rows) :
              rows \in SeqsUpTo([scale : {Q(1)}], 1)}

HistRows == {[type |-> "c1", scale |-> Q(2)], [type |-> "c1", scale |-> Q(0)],
             [type |-> "c3", scale |-> Q(1)], [type |-> NA, scale |-> Q(1)]}

\* what historical_data holds for last week: nothing, a snapshot, or a
\* snapshot that lacks a required column
WeekFrames ==
    {NoFrame}
    \cup {Frame("last_week", {"type", "scale"}, rows) :
              rows \in SeqsUpTo(HistRows, MaxHistRows)}
    \cup {Frame("last_week", {"type"}, <<[type |-> "c1"]>>),
          Frame("last_week", {"scale"}, <<[scale |-> Q(2)]>>)}

OtherPeriodFrames(id) ==
    {NoFrame,
     Frame(id, {"type", "scale"},
           <<[type |-> "c3", scale |-> Q(1)], [type |-> "c1", scale |-> Q(2)]>>)}

MaxChannelRows == 2
MaxRefRows == 2

Reported == {Q(0), Q(89), Q(90)}
References == {Q(0), Q(100), Q(-100)}
\* every reference for code A, one for code B
ReferenceRows ==
    [code : {"A"}, scale : References] \cup {[code |-> "B", scale |-> Q(100)]}
\* reported scales below zero: the negative reference itself, and one beyond it
NegativeReported == {Q(-100), Q(-300)}

\* channel records: code and reported scale; a few carry a date or a channel
\* name, and one lacks the scale
ChannelFrames ==
    {Frame("channel_df", {"code", "scale"}, rows) :
        rows \in SeqsUpTo([code : Codes, scale : Reported], MaxChannelRows)}
    \cup {Frame("channel_df", {"code", "scale", "date"}, rows) :
              rows \in SeqsUpTo([code : {"A"}, scale : {Q(89)},
                                 date : {REPORT_DATE, "another day", NA}], 2)}
    \cup {Frame("channel_df", {"code", "scale", "channel"}, rows) :
              rows \in SeqsUpTo([code : {"A"}, scale : {Q(89)},
                                 channel : {"channel A", "bank X", NA}], 1)}
    \cup {Frame("channel_df", {"code", "scale"}, <<[code |-> "A", scale |-> s]>>) :
              s \in NegativeReported}
    \cup {Frame("channel_df", {"code"}, <<[code |-> "A"]>>)}

\* the current operational snapshot used as the book of record
ReferenceFrames ==
    {NoFrame}
    \cup {Frame("operation_overview_df", {"code", "scale"}, rows) :
              rows \in SeqsUpTo(ReferenceRows, MaxRefRows)}
    \cup {Frame("operation_overview_df", {"code"}, <<[code |-> "A"]>>),
          Frame("operation_overview_df", {"scale"}, <<[scale |-> Q(100)]>>)}

MaxDetailRows == 3

DetailRows ==
    [code : Codes, type : {"c1", "c2"}, scale : {Q(1)}]
        \cup {[code |-> "A", type |-> "c1", scale |-> Q(0)],
              [code |-> "A", type |-> NA, scale |-> Q(1)],
              [code |-> "B", type |-> "c1", scale |-> Q(-1)]}

\* current snapshots for the detail table: code, category and scale (name
\* and net value are absent), or the category absent as well
DetailFrames ==
    {Frame("current_data", {"code", "type", "scale"}, rows) :
        rows \in SeqsUpTo(DetailRows, MaxDetailRows)}
    \cup {Frame("current_data", {"code", "scale"},
                <<[code |-> "A", scale |-> Q(1)]>>)}

\* historical_data of the detail table: None, a dict without last week, or
\* a dict with last week's snapshot (one with a repeated code, one that
\* lacks the net value)
DetailHistories ==
    {NoFrame, [last_week |-> NoFrame],
     [last_week |-> Frame("last_week", {"code", "scale", "nav"},
          <<[code |-> "A", scale |-> Q(2), nav |-> Q(1)],
            [code |-> "B", scale |-> Q(0), nav |-> Q(0)]>>)],
     [last_week |-> Frame("last_week", {"code", "scale", "nav"},
          <<[code |-> "A", scale |-> Q(2), nav |-> Q(1)],
            [code |-> "A", scale |-> Q(1), nav |-> Q(1)]>>)],
     [last_week |-> Frame("last_week", {"code", "scale"},
          <<[code |-> "A", scale |-> Q(2)]>>)]}

---------------------------------------------------------------------------
(* Operations: the program is sequential, one call runs at a time          *)

Init == op = "start" /\ args = <<>> /\ ret = <<>> /\ locals = <<>>

Call_safe_divide ==
    /\ op = "start"
    /\ \E n \in Scalars, d \in Scalars, dv \in Defaults :
        /\ op' = "safe_divide"
        /\ args' = [numerator |-> n, denominator |-> d, default_value |-> dv]
        /\ ret' = safe_divide(n, d, dv)
        /\ locals' = <<>>

Call_calculate_percentage_change ==
    /\ op = "start"
    /\ \E c \in Scalars, p \in Scalars :
        /\ op' = "calculate_percentage_change"
        /\ args' = [current_value |-> c, previous_value |-> p]
        /\ ret' = calculate_percentage_change(c, p)
        /\ locals' = <<>>

Call_group_and_sum ==
    /\ op = "start"
    /\ \E df \in TypeScaleFrames("df", MaxRows) :
        /\ op' = "group_and_sum"
        /\ args' = [df |-> df, group_by_cols |-> <<"type">>, sum_cols |-> <<"scale">>]
        /\ ret' = group_and_sum(df, <<"type">>, <<"scale">>)
        /\ locals' = <<>>

Call_merge_with_history ==
    /\ op = "start"
    /\ \E cur \in CodeScaleFrames("current_df", MergeScales, MaxMergeRows),
          hist \in {NoFrame} \cup CodeScaleFrames("historical_df", HistScales, MaxMergeRows),
          ear \in BOOLEAN :
        /\ op' = "merge_with_history"
        /\ args' = [current_df |-> cur, historical_df |-> hist,
                    on_columns |-> <<"code">>, value_columns |-> <<"scale">>,
                    empty_apply_raises |-> ear]
        /\ ret' = merge_with_history(cur, hist, <<"code">>, <<"scale">>, ear)
        /\ locals' = <<>>

Call_calculate_product_scale ==
    /\ op = "start"
    /\ \E cur \in CurrentFrames, wk \in WeekFrames,
          mo \in OtherPeriodFrames("last_month"),
          yr \in OtherPeriodFrames("last_year") :
        \E ear \in (IF \A i \in DOMAIN cur.rows :
                          "type" \in cur.cols => cur.rows[i].type = NA
                    THEN BOOLEAN ELSE {TRUE}) :
        LET historical_data == [last_week |-> wk, last_month |-> mo, last_year |-> yr]
            product_type_scale == product_type_scale_of(cur, historical_data, ear)
        IN  /\ op' = "calculate_product_scale"
            /\ args' = [current_data |-> cur, historical_data |-> historical_data,
                        empty_apply_raises |-> ear]
            /\ ret' = styled_or_empty(product_type_scale)
            /\ locals' = [product_type_scale |-> product_type_scale]

Call_process_channel_data ==
    /\ op = "start"
    /\ \E ch \in ChannelFrames, ov \in ReferenceFrames :
        \E numeric \in (IF ch.cols \subseteq {"code", "scale"} THEN BOOLEAN ELSE {FALSE}),
           ear \in (IF ch.rows = <<>> \/ "date" \in ch.cols THEN BOOLEAN ELSE {TRUE}) :
        LET body == process_channel_data_body(ch, ov, numeric, ear)
        IN  /\ op' = "process_channel_data"
            /\ args' = [channel_df |-> ch, operation_overview_df |-> ov,
                        numeric_rows |-> numeric, empty_apply_raises |-> ear]
            /\ ret' = df_or_input(body, ch)
            /\ locals' = [caught |-> IF Failed(body) THEN body.exc ELSE "none"]

Call_calculate_product_scale_details ==
    /\ op = "start"
    /\ \E cur \in DetailFrames, historical_data \in DetailHistories :
        \E ear \in (IF cur.rows = <<>> THEN BOOLEAN ELSE {TRUE}) :
        LET details == detail_table_of(cur, historical_data, ear)
        IN  /\ op' = "calculate_product_scale_details"
            /\ args' = [current_data |-> cur, historical_data |-> historical_data,
                        empty_apply_raises |-> ear]
            /\ ret' = styled_details_or_empty(details)
            /\ locals' = [details |-> details]

---------------------------------------------------------------------------
(* The report run: main.py.  data is the dict returned by clean_data: a    *)
(* historical portfolio is None or the dict of its sheets, a historical    *)
(* channel snapshot is None or a DataFrame.  A run is op = "main"; locals  *)
(* holds its position pc, the sheets written to the writer, the log of the *)
(* sections run so far and whether the file was saved.                     *)

MaxRunRows == 1

\* REPORT_SHEETS restricted to the sheets main() knows, in the order of main()
Sections ==
    <<"product_scale", "channel_analysis", "manager_aum", "asset_allocation",
      "high_volatility", "expiring">>

\* the truth value `x if x else None` asks for: None is false, a non-empty
\* dict is true, a DataFrame has none (ValueError)
truth_value(x) ==
    IF x = NoFrame THEN "False"
    ELSE IF "rows" \in DOMAIN x THEN "ValueError"
    ELSE "True"

\* data['historical'][period]['portfolio']['operation_overview']
\*     if data['historical'][period]['portfolio'] else None
historical_overview(data, period) ==
    IF truth_value(data.historical[period].portfolio) = "True"
    THEN data.historical[period].portfolio.operation_overview
    ELSE NoFrame

\* data['historical'][period]['channel'] if data['historical'][period]['channel'] else None
historical_channel(data, period) ==
    LET t == truth_value(data.historical[period].channel)
    IN  IF t = "ValueError" THEN Raise("ValueError")
        ELSE IF t = "True" THEN data.historical[period].channel
        ELSE NoFrame

\* a calculation of logic.calculations whose module is not part of the
\* sources: it returns its table or fails
calculate_section(name, fails) ==
    IF fails THEN Raise("ComputationFailure") ELSE Frame(name, {"sheet"}, <<>>)

\* what one section leaves behind: its log entry and, when written, its sheet
Written(section, df) == [section |-> section, status |-> "written", sheet |-> df]
FailedIn(section, where, e) ==
    [section |-> section, status |-> where, sheet |-> Raise(e.exc)]

\* try: ... df.to_excel(writer, ...) except Exception: logger.error(...)
sheet_or_logged(section, df) ==
    IF Failed(df) THEN FailedIn(section, "calculation failed", df)
    ELSE Written(section, df)

process_product_scale(data, empty_apply_raises) ==
    LET current_data == data.current.portfolio.operation_overview
        historical_data == [p \in Range(Periods) |-> historical_overview(data, p)]
    IN  sheet_or_logged("product_scale",
            calculate_product_scale(current_data, historical_data,
                                    empty_apply_raises))

process_channel_analysis(data, fails) ==
    LET last_week == historical_channel(data, "last_week")
        last_month == historical_channel(data, "last_month")
    IN  IF Failed(last_week) THEN FailedIn("channel_analysis", "wrapper failed", last_week)
        ELSE IF Failed(last_month)
        THEN FailedIn("channel_analysis", "wrapper failed", last_month)
        ELSE sheet_or_logged("channel_analysis",
                             calculate_section("channel_analysis", fails))

process_manager_aum(data, fails) ==
    sheet_or_logged("manager_aum", calculate_section("manager_aum", fails))

process_asset_allocation(data, fails) ==
    sheet_or_logged("asset_allocation", calculate_section("asset_allocation", fails))

process_high_volatility_products(data, fails) ==
    LET last_week_data == historical_overview(data, "last_week")
    IN  sheet_or_logged("high_volatility", calculate_section("high_volatility", fails))

process_expiring_products(data, fails) ==
    sheet_or_logged("expiring", calculate_section("expiring", fails))

\* the run goes on to the next section, or to the save, whatever the outcome
after_section(run, outcome, next_pc) ==
    [pc |-> next_pc,
     sheets |-> IF outcome.status = "written"
                THEN run.sheets @@ (outcome.section :> outcome.sheet)
                ELSE run.sheets,
     log |-> Append(run.log, [section |-> outcome.section, status |-> outcome.status]),
     saved |-> run.saved]

RunCurrentFrames ==
    {Frame("current_data", {"type", "scale"}, rows) :
        rows \in SeqsUpTo(CurRows, MaxRunRows)}

\* a historical portfolio file: missing, loaded, or loaded with an overview
\* sheet that lacks the scale column
RunPortfolios ==
    {NoFrame,
     [operation_overview |->
         Frame("last_week", {"type", "scale"}, <<[type |-> "c1", scale |-> Q(2)]>>)],
     [operation_overview |-> Frame("last_week", {"type"}, <<[type |-> "c1"]>>)]}

\* a historical channel file: missing or loaded
RunChannels ==
    {NoFrame,
     Frame("channel_df", {"code", "scale"}, <<[code |-> "A", scale |-> Q(89)]>>)}

RunData ==
    {[current |->
         [portfolio |-> [operation_overview |-> cur],
          channel |-> Frame("channel_df", {"code", "scale"},
                            <<[code |-> "A", scale |-> Q(89)]>>)],
      historical |->
         [last_week |-> [portfolio |-> wp, channel |-> wc],
          last_month |-> [portfolio |-> NoFrame, channel |-> mc],
          last_year |-> [portfolio |-> NoFrame, channel |-> NoFrame]]] :
        cur \in RunCurrentFrames, wp \in RunPortfolios,
        wc \in RunChannels, mc \in RunChannels}

\* main(), lines 160-176: the data is loaded and cleaned, the writer opened
Call_main ==
    /\ op = "start"
    /\ \E data \in RunData :
        /\ op' = "main"
        /\ args' = [data |-> data]
        /\ ret' = <<>>
        /\ locals' = [pc |-> "product_scale", sheets |-> <<>>, log |-> <<>>,
                      saved |-> FALSE]

Step_process_product_scale ==
    /\ op = "main" /\ locals.pc = "product_scale"
    /\ \E ear \in (IF \A i \in DOMAIN args.data.current.portfolio.operation_overview.rows :
                         args.data.current.portfolio.operation_overview.rows[i].type = NA
                   THEN BOOLEAN ELSE {TRUE}) :
        locals' = after_section(locals, process_product_scale(args.data, ear),
                                "channel_analysis")
    /\ UNCHANGED <<op, args, ret>>

Step_process_channel_analysis ==
    /\ op = "main" /\ locals.pc = "channel_analysis"
    /\ \E fails \in BOOLEAN :
        locals' = after_section(locals, process_channel_analysis(args.data, fails),
                                "manager_aum")
    /\ UNCHANGED <<op, args, ret>>

Step_process_manager_aum ==
    /\ op = "main" /\ locals.pc = "manager_aum"
    /\ \E fails \in BOOLEAN :
        locals' = after_section(locals, process_manager_aum(args.data, fails),
                                "asset_allocation")
    /\ UNCHANGED <<op, args, ret>>

Step_process_asset_allocation ==
    /\ op = "main" /\ locals.pc = "asset_allocation"
    /\ \E fails \in BOOLEAN :
        locals' = after_section(locals, process_asset_allocation(args.data, fails),
                                "high_volatility")
    /\ UNCHANGED <<op, args, ret>>

Step_process_high_volatility_products ==
    /\ op = "main" /\ locals.pc = "high_volatility"
    /\ \E fails \in BOOLEAN :
        locals' = after_section(locals,
                                process_high_volatility_products(args.data, fails),
                                "expiring")
    /\ UNCHANGED <<op, args, ret>>

Step_process_expiring_products ==
    /\ op = "main" /\ locals.pc = "expiring"
    /\ \E fails \in BOOLEAN :
        locals' = after_section(locals, process_expiring_products(args.data, fails),
                                "save")
    /\ UNCHANGED <<op, args, ret>>

\* writer.save()
Step_save ==
    /\ op = "main" /\ locals.pc = "save"
    /\ locals' = [locals EXCEPT !.pc = "done", !.saved = TRUE]
    /\ UNCHANGED <<op, args, ret>>

\* the call returns to the caller, which goes on to its next call
Return ==
    /\ op # "start"
    /\ op = "main" => locals.pc = "done"
    /\ op' = "start" /\ args' = <<>> /\ ret' = <<>> /\ locals' = <<>>

NextArith ==
    \/ Call_safe_divide
    \/ Call_calculate_percentage_change
    \/ Return

NextFrames ==
    \/ Call_group_and_sum
    \/ Call_merge_with_history
    \/ Return

Next ==
    \/ Call_safe_divide
    \/ Call_calculate_percentage_change
    \/ Call_group_and_sum
    \/ Call_merge_with_history
    \/ Call_calculate_product_scale
    \/ Call_process_channel_data
    \/ Call_calculate_product_scale_details
    \/ Call_main
    \/ Step_process_product_scale
    \/ Step_process_channel_analysis
    \/ Step_process_manager_aum
    \/ Step_process_asset_allocation
    \/ Step_process_high_volatility_products
    \/ Step_process_expiring_products
    \/ Step_save
    \/ Return

NextScale ==
    \/ Call_calculate_product_scale
    \/ Return

NextChannel ==
    \/ Call_process_channel_data
    \/ Return

NextDetails ==
    \/ Call_calculate_product_scale_details
    \/ Return

SpecDetails == Init /\ [][NextDetails]_vars

NextShares ==
    \/ Call_calculate_product_scale
    \/ Call_calculate_product_scale_details
    \/ Return

SpecShares == Init /\ [][NextShares]_vars

NextRun ==
    \/ Call_main
    \/ Step_process_product_scale
    \/ Step_process_channel_analysis
    \/ Step_process_manager_aum
    \/ Step_process_asset_allocation
    \/ Step_process_high_volatility_products
    \/ Step_process_expiring_products
    \/ Step_save
    \/ Return

SpecRun == Init /\ [][NextRun]_vars
SpecArith == Init /\ [][NextArith]_vars
SpecFrames == Init /\ [][NextFrames]_vars
SpecScale == Init /\ [][NextScale]_vars
SpecChannel == Init /\ [][NextChannel]_vars
Spec == Init /\ [][Next]_vars

---------------------------------------------------------------------------
(* Formulas used by the properties                                         *)

\* r = a / b, stated by cross-multiplication (a, b, r numbers, b # 0)
IsQuotient(r, a, b) ==
    /\ IsNum(r)
    /\ r.n * a.d * b.n = a.n * b.d * r.d

Missing(v) == v.t \in {"nan", "none"}
ZeroOf(v) == IF Missing(v) THEN Q(0) ELSE v

IsTable(r) == "rows" \in DOMAIN r

\* the indices of rows whose column c holds v
RowsWith(rows, c, v) == {i \in DOMAIN rows : rows[i][c] = v}

RECURSIVE SumAt(_, _, _)
\* the arithmetic sum of column c over the rows at the indices I (missing = 0)
SumAt(rows, c, I) ==
    IF I = {} THEN Q(0)
    ELSE LET i == CHOOSE j \in I : TRUE
         IN  f_add(ZeroOf(rows[i][c]), SumAt(rows, c, I \ {i}))

Permuted(rows, p) == [i \in DOMAIN rows |-> rows[p[i]]]
Perms(n) == {p \in [1..n -> 1..n] : \A i, j \in 1..n : p[i] = p[j] => i = j}

---------------------------------------------------------------------------
(* C1: safe_divide never raises; it returns the default when the           *)
(* denominator is missing or zero, and otherwise numerator/denominator.    *)
(* Original statement: with a missing numerator the quotient is the        *)
(* quotient of a missing value, i.e. missing.                              *)
C1_Original ==
    op = "safe_divide" =>
        /\ ~IsRaise(ret)
        /\ (Missing(args.denominator) \/ IsZero(args.denominator))
               => ret = args.default_value
        /\ ~(Missing(args.denominator) \/ IsZero(args.denominator))
               => IF Missing(args.numerator)
                  THEN Missing(ret)
                  ELSE IsQuotient(ret, args.numerator, args.denominator)

(* C1 (amended): safe_divide never raises; it returns the default when the *)
(* denominator is missing or zero, and otherwise numerator/denominator     *)
(* with a missing numerator counted as 0 (so the result is then 0, not     *)
(* missing and not the default).                                           *)
C1_SafeDivide ==
    op = "safe_divide" =>
        /\ ~IsRaise(ret)
        /\ (Missing(args.denominator) \/ IsZero(args.denominator))
               => ret = args.default_value
        /\ ~(Missing(args.denominator) \/ IsZero(args.denominator))
               => IsQuotient(ret, ZeroOf(args.numerator), args.denominator)
        /\ (args.default_value = Q(0) /\ (IsZero(args.denominator)
                                          \/ Missing(args.denominator)))
               => ret = Q(0)

C1_Witness ==
    /\ op = "safe_divide"
    /\ Missing(args.numerator)
    /\ args.denominator = Q(2)
    /\ args.default_value = Q(7)
    /\ ret = Q(0)

(* C2: percentage_change never raises; it is null whenever previous is     *)
(* missing or zero, and otherwise (current - previous) / previous with a   *)
(* missing current counted as 0.                                           *)
C2_PercentageChange ==
    op = "calculate_percentage_change" =>
        /\ ~IsRaise(ret)
        /\ (Missing(args.previous_value) \/ IsZero(args.previous_value))
               => ret = None
        /\ ~(Missing(args.previous_value) \/ IsZero(args.previous_value))
               => /\ IsQuotient(ret,
                               f_sub(ZeroOf(args.current_value), args.previous_value),
                               args.previous_value)
                  /\ Missing(args.current_value) => ret = Q(-1)

C2_Witness ==
    /\ op = "calculate_percentage_change"
    /\ Missing(args.current_value)
    /\ args.previous_value = Q(3)
    /\ ret = Q(-1)

(* C5: on an input that has the requested columns, group_and_sum returns  *)
(* one row per distinct group-key value present in the input (a row whose  *)
(* key is missing carries no key value and joins no group), each sum is    *)
(* the arithmetic sum over the rows of that key, the rows are in ascending *)
(* key order, and permuting the input rows does not change the result.     *)
C5_GroupAndSum ==
    (op = "group_and_sum" /\ {"type", "scale"} \subseteq args.df.cols) =>
        LET in == args.df.rows
            keys == {in[i].type : i \in DOMAIN in} \ {NA}
            out == ret.rows
        IN  /\ IsTable(ret) /\ ret.id = "new"
            /\ {out[i].type : i \in DOMAIN out} = keys
            /\ Len(out) = Cardinality(keys)
            /\ \A i \in DOMAIN out :
                   out[i].scale = SumAt(in, "scale", RowsWith(in, "type", out[i].type))
            /\ \A i, j \in DOMAIN out :
                   i < j => StrRank(out[i].type) < StrRank(out[j].type)
            /\ \A p \in Perms(Len(in)) :
                   group_and_sum([args.df EXCEPT !.rows = Permuted(in, p)],
                                 args.group_by_cols, args.sum_cols).rows = out

C5_Witness ==
    /\ op = "group_and_sum"
    /\ args.df.cols = {"type", "scale"}
    /\ Len(args.df.rows) = 3
    /\ args.df.rows[1].type = "c2"
    /\ args.df.rows[2].type = "c1"
    /\ args.df.rows[3].type = "c2"
    /\ args.df.rows[1].scale = Q(1) /\ args.df.rows[3].scale = Q(2)
    /\ Len(ret.rows) = 2
    /\ ret.rows[1].type = "c1"
    /\ ret.rows[2] = [type |-> "c2", scale |-> Q(3)]

(* C6: group_and_sum fails with a schema error whenever a requested group  *)
(* key or sum key is absent from the input's columns, and never returns a  *)
(* table in that case.                                                     *)
C6_Original ==
    (op = "group_and_sum" /\ ~({"type", "scale"} \subseteq args.df.cols)) =>
        Failed(ret) /\ ~IsTable(ret)

(* C6 (amended): when a requested key is absent, group_and_sum raises      *)
(* nothing to its caller: it reports the error and returns the input       *)
(* record set itself, ungrouped and unchanged.                             *)
C6_MissingKeyReturnsInput ==
    (op = "group_and_sum" /\ ~({"type", "scale"} \subseteq args.df.cols)) =>
        ~Failed(ret) /\ ret = args.df

C6_Witness ==
    /\ op = "group_and_sum"
    /\ args.df.cols = {"scale"}
    /\ Len(args.df.rows) = 2
    /\ ret = args.df

\* row i of the result is row k of current, with columns added
Extends(outrow, inrow) == \A c \in DOMAIN inrow : outrow[c] = inrow[c]

\* the column is absent from the row or holds a missing value
NullAt(row, c) == c \in DOMAIN row => Missing(row[c])

DuplicatedKeys(df, c) ==
    {df.rows[i][c] : i \in {j \in DOMAIN df.rows :
        \E k \in DOMAIN df.rows : k # j /\ df.rows[k][c] = df.rows[j][c]}}

UsableHistory(a) ==
    /\ a.historical_df # NoFrame
    /\ {"code", "scale"} \subseteq a.historical_df.cols
    /\ {"code", "scale"} \subseteq a.current_df.cols

(* C3: for every current and every supplied historical record set (also    *)
(* one with repeated keys), the result of merge_with_history holds each    *)
(* row of current exactly once, so as many rows as current, and a row      *)
(* without a historical match carries null historical and change columns.  *)
C3_EachCurrentRowOnce ==
    (op = "merge_with_history" /\ args.historical_df # NoFrame) =>
        /\ IsTable(ret)
        /\ Len(ret.rows) = Len(args.current_df.rows)
        /\ \A i \in DOMAIN ret.rows : Extends(ret.rows[i], args.current_df.rows[i])
        /\ \A i \in DOMAIN ret.rows :
               (UsableHistory(args) =>
                   RowsWith(args.historical_df.rows, "code", ret.rows[i].code) = {})
               => NullAt(ret.rows[i], "scale_hist") /\ NullAt(ret.rows[i], "scale_chg")

(* C4: when the historical record set holds two or more rows with the same *)
(* join key, the history merge surfaces an ambiguous-join failure instead  *)
(* of returning a result in which the matching current row is duplicated.  *)
C4_AmbiguousJoinSurfaced ==
    (/\ op = "merge_with_history"
     /\ UsableHistory(args)
     /\ \E i \in DOMAIN args.current_df.rows :
            args.current_df.rows[i].code
                \in DuplicatedKeys(args.historical_df, "code"))
    => (Failed(ret) /\ ~IsTable(ret))

---------------------------------------------------------------------------
(* The category table of the scale report builder, before formatting       *)

RawTable == locals.product_type_scale
BuiltTable == op = "calculate_product_scale" /\ IsTable(RawTable) /\ ret.rows # <<>>
CategoryRows == 1..(Len(RawTable.rows) - 1)
TotalRow == RawTable.rows[Len(RawTable.rows)]

\* no record of the current snapshot lacks a category
AllCategorised(df) ==
    \A i \in DOMAIN df.rows : "type" \in df.cols /\ df.rows[i].type # NA

RECURSIVE StrictSumAt(_, _, _)
\* the sum of column c over the rows at I; a NaN makes the sum NaN
StrictSumAt(rows, c, I) ==
    IF I = {} THEN Q(0)
    ELSE LET i == CHOOSE j \in I : TRUE
         IN  f_add(rows[i][c], StrictSumAt(rows, c, I \ {i}))

NonNegative(v) == IsNum(v) /\ v.n >= 0

(* C7: in every non-empty category table of the scale report builder the   *)
(* Total row's raw scale equals the sum of the raw scales of the category  *)
(* rows, for all current record sets, also those holding records whose     *)
(* category is missing.                                                    *)
C7_Original ==
    BuiltTable =>
        /\ TotalRow.type = "Total"
        /\ TotalRow.scale = SumAt(RawTable.rows, "scale", CategoryRows)

(* C7 (amended): the same, for current record sets in which no record's    *)
(* category is missing (a record without a category counts in the Total    *)
(* row and in no category row).                                            *)
C7_TotalIsSumOfCategories ==
    (BuiltTable /\ AllCategorised(args.current_data)) =>
        /\ TotalRow.type = "Total"
        /\ TotalRow.scale = SumAt(RawTable.rows, "scale", CategoryRows)
        /\ \A i \in CategoryRows : RawTable.rows[i].type # "Total"

C7_Witness ==
    /\ BuiltTable
    /\ AllCategorised(args.current_data)
    /\ args.historical_data.last_week # NoFrame
    /\ Len(RawTable.rows) = 3
    /\ RawTable.rows[1].scale = Q(1)
    /\ RawTable.rows[2].scale = Q(-1)
    /\ TotalRow.scale = Q(0)

(* C8: whenever every category's scale is non-negative (the all-zero case  *)
(* included), the shares of the category rows, Total excluded, sum to 1.   *)
(* Stated for tables that have a category row.                             *)
C8_Original ==
    (/\ BuiltTable
     /\ CategoryRows # {}
     /\ \A i \in CategoryRows : NonNegative(RawTable.rows[i].scale))
    => StrictSumAt(RawTable.rows, "share", CategoryRows) = Q(1)

(* C8 (amended): whenever every category's scale is non-negative, the      *)
(* total scale is positive and no current record lacks a category, the     *)
(* shares of the category rows sum to 1 (exactly, in exact arithmetic).    *)
(* With a total of 0 each share is 0/0, a NaN.                             *)
C8_SharesSumToOne ==
    (/\ BuiltTable
     /\ \A i \in CategoryRows : NonNegative(RawTable.rows[i].scale)
     /\ TotalRow.scale.n > 0
     /\ AllCategorised(args.current_data))
    => StrictSumAt(RawTable.rows, "share", CategoryRows) = Q(1)

C8_Witness ==
    /\ BuiltTable
    /\ AllCategorised(args.current_data)
    /\ Len(RawTable.rows) = 3
    /\ RawTable.rows[1].share = Num(1, 2)
    /\ RawTable.rows[2].share = Num(1, 2)
    /\ TotalRow.scale = Q(2)

---------------------------------------------------------------------------
(* The channel reconciler                                                  *)

\* the reconciliation was asked for: a reference snapshot with code and
\* scale, channel records with code and scale
Reconciling ==
    /\ op = "process_channel_data"
    /\ args.operation_overview_df # NoFrame
    /\ {"code", "scale"} \subseteq args.operation_overview_df.cols
    /\ {"code", "scale"} \subseteq args.channel_df.cols

\* the book-of-record scale of a code: the last row of the reference
\* snapshot with that code; NaN when there is none
Reference(code) ==
    LET rows == args.operation_overview_df.rows
        at == RowsWith(rows, "code", code)
    IN  IF at = {} THEN NaN ELSE rows[CHOOSE i \in at : \A j \in at : j <= i].scale

\* the scale later steps use for a record: the adjusted one where the
\* reconciler produced it, the reported one otherwise
Resolved(row) == IF "adjusted" \in DOMAIN row THEN row.adjusted ELSE row.scale

\* |reported - reference| / reference > 1/10, for integers
ExceedsTolerance(reported, reference) ==
    reference.n > 0 /\ 10 * Abs(reported.n - reference.n) > reference.n

\* the records the reconciler works on: those of the report date
OfReportDate(row) == "date" \in DOMAIN row => row.date = REPORT_DATE

ThresholdRule(row) ==
    LET reference == Reference(row.code)
    IN  (IsNum(reference) /\ ~IsZero(reference)) =>
            Resolved(row) = IF ExceedsTolerance(row.scale, reference)
                            THEN reference ELSE row.scale

(* C9: for each channel record whose instrument has a non-zero reference   *)
(* scale, the resolved scale is the reference iff                          *)
(* |reported - reference| / reference > 0.10 strictly, and the reported    *)
(* value otherwise (also at exactly 0.10).                                 *)
C9_OverrideIffAboveTolerance ==
    Reconciling =>
        \A i \in DOMAIN ret.rows : OfReportDate(ret.rows[i]) => ThresholdRule(ret.rows[i])

\* The rule of C9 does hold in every call in which no division by zero is
\* raised: on rows of numpy floats, or when no record of the report date
\* has a zero reference.
C9_HoldsWithoutZeroDivision ==
    (Reconciling /\ locals.caught # "ZeroDivisionError") =>
        \A i \in DOMAIN ret.rows : OfReportDate(ret.rows[i]) => ThresholdRule(ret.rows[i])

(* C10: a reference scale of exactly zero leads to no override, whatever   *)
(* the reported value: the resolved scale is the reported one and no       *)
(* division by zero fails.                                                 *)
C10_ZeroReferenceKeepsReported ==
    Reconciling =>
        /\ locals.caught # "ZeroDivisionError"
        /\ \A i \in DOMAIN ret.rows :
               (OfReportDate(ret.rows[i]) /\ IsZero(Reference(ret.rows[i].code)))
                   => Resolved(ret.rows[i]) = ret.rows[i].scale

\* the record's instrument has no entry in the reference map
Unmatched(row) == pd_isna(Reference(row.code))

\* the channel records of the call without the unmatched ones
MatchedOnly ==
    LET rows == args.channel_df.rows
        idx == SelectIdx(Len(rows), LAMBDA i : ~Unmatched(rows[i]))
    IN  Frame("channel_df", args.channel_df.cols, [k \in DOMAIN idx |-> rows[idx[k]]])

\* code, reported and resolved scale of the matched records of the report
\* date, in the order of the table
ResolvedOfMatched(df) ==
    LET idx == SelectIdx(Len(df.rows),
                 LAMBDA i : OfReportDate(df.rows[i]) /\ ~Unmatched(df.rows[i]))
    IN  [k \in DOMAIN idx |-> <<df.rows[idx[k]].code, df.rows[idx[k]].scale,
                                Resolved(df.rows[idx[k]])>>]

(* C11: a channel record whose instrument has no entry in the reference    *)
(* map is passed through, its resolved scale being its reported scale, and *)
(* the other records resolve exactly as they do when the unmatched records *)
(* are left out of the input.                                              *)
C11_UnmatchedPassedThrough ==
    Reconciling =>
        /\ \A i \in DOMAIN ret.rows :
               (OfReportDate(ret.rows[i]) /\ Unmatched(ret.rows[i]))
                   => Resolved(ret.rows[i]) = ret.rows[i].scale
        /\ ResolvedOfMatched(ret)
             = ResolvedOfMatched(process_channel_data(MatchedOnly,
                   args.operation_overview_df, args.numeric_rows,
                   args.empty_apply_raises))

C11_Witness ==
    /\ Reconciling
    /\ Len(ret.rows) = 2
    /\ ret.rows[1].code = "B" /\ Unmatched(ret.rows[1])
    /\ ret.rows[1].scale = Q(89)
    /\ "adjusted" \in DOMAIN ret.rows[1] /\ ret.rows[1].adjusted = Q(89)
    /\ ret.rows[2].code = "A" /\ ret.rows[2].scale = Q(0)
    /\ ret.rows[2].adjusted = Q(100)

---------------------------------------------------------------------------
(* The report run                                                          *)

\* every section run so far is the next one of main(), whatever became of
\* the ones before it; a finished run ran all of them and saved the file;
\* a failed section left no sheet behind
SectionsIsolated ==
    /\ Len(locals.log) <= Len(Sections)
    /\ \A k \in DOMAIN locals.log : locals.log[k].section = Sections[k]
    /\ locals.pc = "done" => (Len(locals.log) = Len(Sections) /\ locals.saved)
    /\ \A k \in DOMAIN locals.log :
           locals.log[k].section \in DOMAIN locals.sheets
               <=> locals.log[k].status = "written"

(* C12: in a report run a failure inside one section is caught at that     *)
(* section's boundary: the section is omitted (or yields an empty table),  *)
(* every later section still runs and the run goes on to save the report;  *)
(* and no section with valid inputs is failed by the section wrapper       *)
(* itself.                                                                 *)
C12_SectionFailureIsolated ==
    op = "main" =>
        /\ SectionsIsolated
        /\ \A k \in DOMAIN locals.log : locals.log[k].status # "wrapper failed"

\* Without its last clause the statement of C12 holds of every run.
C12_LaterSectionsStillRun == op = "main" => SectionsIsolated

---------------------------------------------------------------------------
(* Ownership of the record sets                                            *)

\* the record sets the caller supplied to the running operation
Supplied ==
    IF op = "group_and_sum" THEN {args.df}
    ELSE IF op = "merge_with_history" THEN {args.current_df, args.historical_df}
    ELSE IF op = "calculate_product_scale"
    THEN {args.current_data} \cup Range(args.historical_data)
    ELSE IF op = "process_channel_data"
    THEN {args.channel_df, args.operation_overview_df}
    ELSE {}

(* C13: no core operation changes the rows or columns of a record set the  *)
(* caller supplied, on success and on failure alike, and what it returns   *)
(* is a newly allocated table, never the caller's own object.              *)
C13_InputsUntouchedResultNew ==
    \A x \in Supplied \ {NoFrame} :
        /\ ret.id = x.id => (ret.cols = x.cols /\ ret.rows = x.rows)
        /\ ret.id # x.id

\* The first half of C13 holds: a returned table that is the caller's own
\* object has the caller's rows and columns.
C13_InputsNeverChanged ==
    \A x \in Supplied \ {NoFrame} :
        ret.id = x.id => (ret.cols = x.cols /\ ret.rows = x.rows)

---------------------------------------------------------------------------
(* The period columns of the category table                                *)

SuppliedPeriods == {p \in Range(Periods) : args.historical_data[p] # NoFrame}

\* the records of period p in category t, and the sum of their scales
PeriodRecords(p, t) == RowsWith(args.historical_data[p].rows, "type", t)
PeriodSum(p, t) == SumAt(args.historical_data[p].rows, "scale", PeriodRecords(p, t))

\* the delta of a category row against period p, with `none` standing for
\* the value where the period has no record of the category or sums to zero
DeltaIs(row, p, none) ==
    IF PeriodRecords(p, row.type) = {} \/ IsZero(PeriodSum(p, row.type))
    THEN row[ChgCol[p]] = none
    ELSE IsQuotient(row[ChgCol[p]], f_sub(row.scale, PeriodSum(p, row.type)),
                    PeriodSum(p, row.type))

(* C14: in the category table, for each supplied historical period, the    *)
(* delta of a category row is percentage_change(current category scale,    *)
(* historical category scale): null when the category has no record in the *)
(* period's snapshot or its historical sum is zero, and                    *)
(* (current - historical) / historical otherwise.                          *)
C14_Original ==
    BuiltTable =>
        \A p \in SuppliedPeriods : \A i \in CategoryRows :
            DeltaIs(RawTable.rows[i], p, None) \/ DeltaIs(RawTable.rows[i], p, NaN)

(* C14 (amended): the delta is 0, not null, when the category has no       *)
(* record in the period's snapshot or its historical sum is zero, and      *)
(* (current - historical) / historical otherwise.                          *)
C14_DeltaOfCategoryRow ==
    BuiltTable =>
        \A p \in SuppliedPeriods : \A i \in CategoryRows :
            DeltaIs(RawTable.rows[i], p, Q(0))

C14_Witness ==
    /\ BuiltTable
    /\ SuppliedPeriods = {"last_week", "last_year"}
    /\ Len(RawTable.rows) = 3
    /\ RawTable.rows[1].type = "c1" /\ RawTable.rows[1].scale = Q(1)
    /\ RawTable.rows[1].wk_scale = Q(2) /\ RawTable.rows[1].wk_chg = Num(-1, 2)
    /\ RawTable.rows[2].type = "c2" /\ pd_isna(RawTable.rows[2].wk_scale)
    /\ RawTable.rows[2].wk_chg = Q(0)

\* the returned table holds the columns of exactly the supplied periods
PeriodColumnsAsSupplied ==
    \A p \in Range(Periods) :
        /\ HistCol[p] \in ret.cols <=> p \in SuppliedPeriods
        /\ ChgCol[p] \in ret.cols <=> p \in SuppliedPeriods

(* C15: for each of the 8 combinations of supplied and absent snapshots    *)
(* for last_week, last_month and last_year, the category table holds a     *)
(* period's historical-scale and delta columns iff that period's snapshot  *)
(* was supplied; an absent period does not keep the columns of a supplied  *)
(* one from being produced, and without any history there are none.        *)
C15_PeriodColumnsIffSupplied ==
    op = "calculate_product_scale" => PeriodColumnsAsSupplied

\* The statement of C15 holds of every table the builder does build.
C15_HoldsOfEveryBuiltTable == BuiltTable => PeriodColumnsAsSupplied

\* the sum of scale over all records of a record set
GrandTotal(df) == SumAt(df.rows, "scale", DOMAIN df.rows)

(* C16: for each supplied period the Total row's historical scale is the   *)
(* sum of scale over all records of that period's snapshot, also those of  *)
(* categories the current snapshot does not have, and the Total row's      *)
(* delta is a function of that grand total and the current grand total     *)
(* alone: (current - historical) / historical, 0 for a zero historical     *)
(* total.                                                                  *)
C16_TotalRowFromGrandTotals ==
    BuiltTable =>
        \A p \in SuppliedPeriods :
            LET h == GrandTotal(args.historical_data[p])
                c == GrandTotal(WithRequired(args.current_data, {"type", "scale"}))
            IN  /\ TotalRow[HistCol[p]] = h
                /\ IF IsZero(h) THEN TotalRow[ChgCol[p]] = Q(0)
                   ELSE IsQuotient(TotalRow[ChgCol[p]], f_sub(c, h), h)

C16_Witness ==
    /\ BuiltTable
    /\ SuppliedPeriods = {"last_month"}
    /\ Len(RawTable.rows) = 2
    /\ RawTable.rows[1].type = "c2" /\ RawTable.rows[1].scale = Q(1)
    /\ pd_isna(RawTable.rows[1].mo_scale)
    /\ TotalRow.scale = Q(1)
    /\ TotalRow.mo_scale = Q(3)
    /\ TotalRow.mo_chg = Num(-2, 3)

---------------------------------------------------------------------------
(* The instrument detail table, before formatting                          *)

DetailTable == locals.details
BuiltDetails == op = "calculate_product_scale_details" /\ IsTable(DetailTable)

\* the current records as the builder reads them, and the sum of scale over
\* the records of one category
CurrentRecords == WithRequired(args.current_data, {"code", "type", "scale"}).rows
CategorySum(t) == SumAt(CurrentRecords, "scale", RowsWith(CurrentRecords, "type", t))
CurrentTotal == SumAt(CurrentRecords, "scale", DOMAIN CurrentRecords)

(* C17: every share follows the default-0 rule: in the category table a    *)
(* row's share is 0 when the current total scale is 0; in the detail table *)
(* share_of_total is 0 when the total scale is 0 and share_of_category is  *)
(* 0 when the scale of the record's category sums to 0; no share is        *)
(* undefined, infinite or NaN.                                             *)
C17_SharesDefaultZero ==
    /\ BuiltTable =>
           \A i \in CategoryRows :
               /\ IsNum(RawTable.rows[i].share)
               /\ IsZero(CurrentTotal) => RawTable.rows[i].share = Q(0)
    /\ BuiltDetails =>
           \A i \in DOMAIN DetailTable.rows :
               LET row == DetailTable.rows[i]
               IN  /\ IsNum(row.share_total) /\ IsNum(row.share_type)
                   /\ IsZero(CurrentTotal) => row.share_total = Q(0)
                   /\ IsZero(CategorySum(row.type)) => row.share_type = Q(0)

---------------------------------------------------------------------------
(* The rows of the category table                                          *)

\* the categories observed in the current snapshot
ObservedCategories == {CurrentRecords[i].type : i \in DOMAIN CurrentRecords} \ {NA}

\* one row per observed category, each once, then the one Total row
OneRowPerCategoryThenTotal ==
    LET n == Len(ret.rows)
    IN  /\ n = Cardinality(ObservedCategories) + 1
        /\ ret.rows[n].type = "Total"
        /\ {ret.rows[i].type : i \in 1..(n - 1)} = ObservedCategories

(* C18: the category table has exactly one row per distinct category       *)
(* observed in the current snapshot, followed by exactly one Total row,    *)
(* for every combination of supplied periods and however many records or   *)
(* categories the historical snapshots hold: joining a period never adds   *)
(* a row.                                                                  *)
C18_OneRowPerCategoryPlusTotal ==
    op = "calculate_product_scale" => OneRowPerCategoryThenTotal

\* The statement of C18 holds of every table the builder does build.
C18_HoldsOfEveryBuiltTable == BuiltTable => OneRowPerCategoryThenTotal

---------------------------------------------------------------------------
(* The order of the detail table                                           *)

\* how many rows of the table stem from a current record of this code: one,
\* or one per record of the code in last week's snapshot
RowsPerRecord(code) ==
    IF has_last_week(args.historical_data)
    THEN LET m == Cardinality(RowsWith(args.historical_data.last_week.rows,
                                       "code", code))
         IN  IF m = 0 THEN 1 ELSE m
    ELSE 1

\* the codes of the records of category t and scale s, in the order of rows
CodesOf(rows, t, s) ==
    LET idx == SelectIdx(Len(rows), LAMBDA i : rows[i].type = t /\ rows[i].scale = s)
    IN  [k \in DOMAIN idx |-> rows[idx[k]].code]

RECURSIVE Repeated(_)
\* each code as often as the table holds its record
Repeated(codes) ==
    IF codes = <<>> THEN <<>>
    ELSE [k \in 1..RowsPerRecord(Head(codes)) |-> Head(codes)] \o Repeated(Tail(codes))

\* a <= b for the categories (a missing one after all others), a >= b for
\* the scales
CategoryAtMost(a, b) == b = NA \/ (a # NA /\ StrRank(a) <= StrRank(b))
ScaleAtLeast(a, b) == a.n * b.d >= b.n * a.d

(* C19: the rows of the instrument detail table are ordered by category    *)
(* ascending (records without a category last) and, within a category, by  *)
(* scale descending; records of the same category and equal scale keep the *)
(* relative order they have in the input.                                  *)
C19_DetailOrderStable ==
    BuiltDetails =>
        LET out == DetailTable.rows
        IN  /\ \A i, j \in DOMAIN out :
                   i < j => /\ CategoryAtMost(out[i].type, out[j].type)
                            /\ out[i].type = out[j].type
                                   => ScaleAtLeast(out[i].scale, out[j].scale)
            /\ \A i \in DOMAIN out :
                   CodesOf(out, out[i].type, out[i].scale)
                       = Repeated(CodesOf(CurrentRecords, out[i].type, out[i].scale))

C19_Witness ==
    /\ BuiltDetails
    /\ args.current_data.rows =
           <<[code |-> "B", type |-> "c2", scale |-> Q(1)],
             [code |-> "B", type |-> "c1", scale |-> Q(1)],
             [code |-> "A", type |-> "c1", scale |-> Q(1)]>>
    /\ Len(DetailTable.rows) = 3
    /\ DetailTable.rows[1].code = "B" /\ DetailTable.rows[1].type = "c1"
    /\ DetailTable.rows[2].code = "A" /\ DetailTable.rows[2].type = "c1"
    /\ DetailTable.rows[3].type = "c2"

---------------------------------------------------------------------------
(* Missing required columns                                                *)

RequiredColumns == {"code", "name", "type", "scale"}

\* a required column is absent from the current snapshot or from a
\* supplied historical one
SomeRequiredColumnAbsent ==
    \/ ~(RequiredColumns \subseteq args.current_data.cols)
    \/ \E p \in SuppliedPeriods : ~(RequiredColumns \subseteq args.historical_data[p].cols)

EndsWithTotalRow == ret.rows # <<>> /\ ret.rows[Len(ret.rows)].type = "Total"

(* C20: when a required column (key, name, category or scale) is absent    *)
(* from the current snapshot or from a supplied historical snapshot, the   *)
(* scale report builder synthesizes it as a null column and returns a      *)
(* non-empty category table that holds the Total row; it neither raises    *)
(* nor returns an empty result.                                            *)
C20_MissingColumnSynthesized ==
    (op = "calculate_product_scale" /\ SomeRequiredColumnAbsent) =>
        /\ ~Failed(ret)
        /\ EndsWithTotalRow

\* For the current snapshot the statement of C20 holds: without history
\* every call lacks a required column of current and ends in a Total row.
C20_CurrentColumnsSynthesized ==
    (op = "calculate_product_scale" /\ SuppliedPeriods = {}) =>
        (SomeRequiredColumnAbsent /\ EndsWithTotalRow)

\* |reported - reference| / reference as line 191 computes it; on a
\* reference other than zero Python floats and numpy floats agree
RelativeDifference(reported, reference) ==
    np_truediv(f_abs(f_sub(reported, reference)), reference)

NegativeReference(row) ==
    IsNum(Reference(row.code)) /\ Reference(row.code).n < 0

===========================================================================
